---- MODULE Spec2Model ----
(***************************************************************************)
(* The 10x10 block-mover service: the board validation and move            *)
(* enumeration engine (isValidCoord, findBlocks, countConnectedBlocks,     *)
(* validateBoard, findAllValidMoves) and the POST /getBoard handler that   *)
(* drives it around a call to an external text generator.                  *)
(***************************************************************************)
EXTENDS Integers, Sequences, FiniteSets, TLC

VARIABLES
    board,            \* the caller's grid (req.body.board)
    lastCall,         \* the engine function called last on board
    validationError,  \* result of the last validateBoard(board)
    allMoves,         \* result of the last findAllValidMoves(board)
    startNode,        \* argument of the last countConnectedBlocks call
    connected,        \* result of the last countConnectedBlocks call
    edits,            \* cells the caller has rewritten while composing board
    steps,            \* enumerated moves played so far
    pc,               \* position of the /getBoard handler
    reply,            \* outcome of the generator call
    responses,        \* responses sent for the request being handled
    requests          \* requests received so far

vars == <<board, lastCall, validationError, allMoves, startNode, connected,
          edits, steps, pc, reply, responses, requests>>


----------------------------------------------------------------------------
(* Game constants *)

BOARD_SIZE == 10
BLOCK_COUNT == 10

(* Bounds of the model *)

\* the caller rewrites cells only in rows and columns below EditSpan
EditSpan == 2
\* at most MaxEdits cells are rewritten while composing an input grid
MaxEdits == 1
\* the player only picks destinations in rows and columns below PlaySpan
PlaySpan == 1
\* at most MaxSteps enumerated moves are played in a row
MaxSteps == 1
\* at most MaxRequests requests are handled in a row
MaxRequests == 2

----------------------------------------------------------------------------
(* JavaScript values *)

\* null, as returned by validateBoard for a valid board
Null == "null"

\* undefined, as produced by indexing an empty array (blocks[0])
Undefined == [r |-> -1, c |-> -1]

\* An array is [isArray |-> TRUE, items |-> <<...>>]; any other value used
\* where an array is expected is NotArray.
Arr(items) == [isArray |-> TRUE, items |-> items]
NotArray == [isArray |-> FALSE, items |-> <<>>]

\* board[r][c], 0-based
Cell(b, r, c) == b.items[r + 1].items[c + 1]

\* board[r][c] = v
SetCell(b, r, c, v) == [b EXCEPT !.items[r + 1].items[c + 1] = v]

DigitChar == <<"0", "1", "2", "3", "4", "5", "6", "7", "8", "9">>

\* String(n) for an integer n, as a sequence of characters
RECURSIVE IntToStr(_)
IntToStr(n) ==
    IF n < 0 THEN <<"-">> \o IntToStr(-n)
    ELSE IF n < 10 THEN <<DigitChar[n + 1]>>
    ELSE IntToStr(n \div 10) \o <<DigitChar[(n % 10) + 1]>>

\* the template literal `${r},${c}`
CoordKey(r, c) == IntToStr(r) \o <<",">> \o IntToStr(c)

DigitValue(ch) == (CHOOSE i \in 1..10 : DigitChar[i] = ch) - 1

\* parseInt(s) for a string of decimal digits with an optional sign
RECURSIVE ParseDigits(_, _)
ParseDigits(s, acc) ==
    IF s = <<>> THEN acc
    ELSE ParseDigits(Tail(s), acc * 10 + DigitValue(Head(s)))

parseInt(s) ==
    IF s # <<>> /\ Head(s) = "-" THEN -ParseDigits(Tail(s), 0)
    ELSE ParseDigits(s, 0)

\* s.split(',')[0] and s.split(',')[1] for a key with one comma
CommaAt(s) == CHOOSE i \in 1..Len(s) : s[i] = ","
SplitFirst(s) == SubSeq(s, 1, CommaAt(s) - 1)
SplitSecond(s) == SubSeq(s, CommaAt(s) + 1, Len(s))

\* s => ({ r: parseInt(s.split(',')[0]), c: parseInt(s.split(',')[1]) })
KeyToCoord(s) == [r |-> parseInt(SplitFirst(s)), c |-> parseInt(SplitSecond(s))]

----------------------------------------------------------------------------
(* Game logic helper functions *)

isValidCoord(r, c) == r >= 0 /\ r < BOARD_SIZE /\ c >= 0 /\ c < BOARD_SIZE

\* the row-major scan of the two nested for loops
ScanOrder ==
    [i \in 1..(BOARD_SIZE * BOARD_SIZE) |->
        [r |-> (i - 1) \div BOARD_SIZE, c |-> (i - 1) % BOARD_SIZE]]

findBlocks(b) == SelectSeq(ScanOrder, LAMBDA p : Cell(b, p.r, p.c) = 1)

\* [{r-1,c}, {r+1,c}, {r,c-1}, {r,c+1}]
NeighborsWithDiagonals(r, c) ==
    << [r |-> r - 1, c |-> c], [r |-> r + 1, c |-> c],
       [r |-> r, c |-> c - 1], [r |-> r, c |-> c + 1],
       [r |-> r - 1, c |-> c - 1], [r |-> r - 1, c |-> c + 1],
       [r |-> r + 1, c |-> c - 1], [r |-> r + 1, c |-> c + 1] >>
Neighbors(r, c) ==
    << [r |-> r - 1, c |-> c], [r |-> r + 1, c |-> c],
       [r |-> r, c |-> c - 1], [r |-> r, c |-> c + 1] >>

\* the for loop over the neighbors of one dequeued node: the neighbors that
\* pass the test are marked visited and queued, in order (the neighbors of a
\* node are distinct cells, so none is added twice within one pass)
Unvisited(b, nbrs, visited) ==
    SelectSeq(nbrs, LAMBDA neighbor :
        /\ isValidCoord(neighbor.r, neighbor.c)
        /\ Cell(b, neighbor.r, neighbor.c) = 1
        /\ CoordKey(neighbor.r, neighbor.c) \notin visited)

\* the while loop of the breadth-first traversal
RECURSIVE BfsLoop(_, _, _, _)
BfsLoop(b, queue, visited, count) ==
    IF queue = <<>> THEN count
    ELSE LET node == Head(queue)
             pushed == Unvisited(b, Neighbors(node.r, node.c), visited)
             added == {CoordKey(pushed[i].r, pushed[i].c) : i \in 1..Len(pushed)}
         IN BfsLoop(b, Tail(queue) \o pushed, visited \cup added, count + 1)

countConnectedBlocks(b, start) ==
    IF start = Undefined THEN 0
    ELSE BfsLoop(b, <<start>>, {CoordKey(start.r, start.c)}, 0)

\* blocks[0]
First(blocks) == IF Len(blocks) > 0 THEN blocks[1] ELSE Undefined

ErrShape == "Board must be a 10x10 array."
ErrCount == "Board must have exactly 10 blocks."
ErrShapeless == "All blocks must form a single, continuous shape."

\* the first test of validateBoard
IsTenByTen(b) ==
    /\ b.isArray
    /\ Len(b.items) = BOARD_SIZE
    /\ \A i \in 1..Len(b.items) :
          b.items[i].isArray /\ Len(b.items[i].items) = BOARD_SIZE

validateBoard(b) ==
    IF ~IsTenByTen(b) THEN ErrShape
    ELSE LET blocks == findBlocks(b)
         IN IF Len(blocks) # BLOCK_COUNT THEN ErrCount
            ELSE IF countConnectedBlocks(b, First(blocks)) # BLOCK_COUNT
                 THEN ErrShapeless
                 ELSE Null

\* const tempBoard = board.map(row => [...row]); tempBoard[r][c] = 0;
\* temp is the working grid, caller the grid the caller still holds
WorkingCopyUncleared(b, block) == [temp |-> b, caller |-> b]
WorkingCopyAliased(b, block) ==
    [temp |-> SetCell(b, block.r, block.c, 0),
     caller |-> SetCell(b, block.r, block.c, 0)]
WorkingCopy(b, block) ==
    [temp |-> SetCell(b, block.r, block.c, 0), caller |-> b]

\* the bridge test on the working grid
NeverBridge(tempBoard, remainingBlocks) == TRUE
AlwaysBridge(tempBoard, remainingBlocks) == FALSE
IsNotBridge(tempBoard, remainingBlocks) ==
    countConnectedBlocks(tempBoard, First(remainingBlocks)) = Len(remainingBlocks)

\* the neighbors examined by the two nested for loops, in order
ExaminedNeighbors(remainingBlocks) ==
    [i \in 1..(4 * Len(remainingBlocks)) |->
        LET otherBlock == remainingBlocks[((i - 1) \div 4) + 1]
        IN Neighbors(otherBlock.r, otherBlock.c)[((i - 1) % 4) + 1]]

\* the keys handed to validDestinations.add, in order
AddedKeys(tempBoard, remainingBlocks) ==
    LET passing == SelectSeq(ExaminedNeighbors(remainingBlocks),
                       LAMBDA neighbor :
                           /\ isValidCoord(neighbor.r, neighbor.c)
                           /\ Cell(tempBoard, neighbor.r, neighbor.c) = 0)
    IN [i \in 1..Len(passing) |-> CoordKey(passing[i].r, passing[i].c)]

\* a Set after add(keys[1]), add(keys[2]), ...: insertion order, no duplicates
KeepDuplicates(keys) == keys
SetOfKeys(keys) ==
    LET firsts == SelectSeq([i \in 1..Len(keys) |-> i],
                      LAMBDA i : \A j \in 1..(i - 1) : keys[j] # keys[i])
    IN [k \in 1..Len(firsts) |-> keys[firsts[k]]]

CollectDestinations(tempBoard, remainingBlocks) ==
    SetOfKeys(AddedKeys(tempBoard, remainingBlocks))

\* Array.from(validDestinations).map(s => ({ r: ..., c: ... }))
DestinationList(validDestinations) ==
    [i \in 1..Len(validDestinations) |-> KeyToCoord(validDestinations[i])]

\* the caller's grid as the first n iterations of the for loop leave it
RECURSIVE GridAfter(_, _, _)
GridAfter(b, blocks, n) ==
    IF n = 0 THEN b
    ELSE WorkingCopy(GridAfter(b, blocks, n - 1), blocks[n]).caller

\* one iteration of the for loop over blocks: what it pushes on allMoves
\* (<<>> when the block is a bridge or has no destination)
MovesOfBlock(b, block) ==
    LET tempBoard == WorkingCopy(b, block).temp
        remainingBlocks == findBlocks(tempBoard)
        validDestinations == CollectDestinations(tempBoard, remainingBlocks)
    IN IF IsNotBridge(tempBoard, remainingBlocks)
       THEN IF Len(validDestinations) > 0
            THEN << [from |-> block, to |-> DestinationList(validDestinations)] >>
            ELSE <<>>
       ELSE <<>>

\* the for loop over blocks: allMoves, and the caller's grid as it leaves it
MoveLoop(b, blocks) ==
    LET pushed == [i \in 1..Len(blocks) |->
                      MovesOfBlock(GridAfter(b, blocks, i - 1), blocks[i])]
        kept == SelectSeq(pushed, LAMBDA m : m # <<>>)
    IN [board |-> GridAfter(b, blocks, Len(blocks)),
        allMoves |-> [i \in 1..Len(kept) |-> kept[i][1]]]

\* returns allMoves, together with the caller's grid after the call
findAllValidMoves(b) == MoveLoop(b, findBlocks(b))

----------------------------------------------------------------------------
(* Input grids *)

\* the 10x10 grid of 0/1 whose marked cells are the pairs <<r, c>> of S
BoardOf(S) ==
    Arr([i \in 1..BOARD_SIZE |->
            Arr([j \in 1..BOARD_SIZE |->
                    IF <<i - 1, j - 1>> \in S THEN 1 ELSE 0])])

\* a straight line of 10 blocks in row 0
LineShape == {<<0, c>> : c \in 0..9}
\* a 2x2 square with a hook: a cycle, a tail and articulation cells
HookShape == {<<0, 0>>, <<0, 1>>, <<1, 0>>, <<1, 1>>, <<1, 2>>, <<1, 3>>,
              <<2, 3>>, <<3, 3>>, <<3, 2>>, <<2, 1>>}
\* a cross in the bottom right corner
CrossShape == {<<7, 8>>, <<8, 8>>, <<9, 8>>, <<8, 7>>, <<8, 9>>, <<8, 6>>,
               <<8, 5>>, <<6, 8>>, <<5, 8>>, <<9, 9>>}
\* a 2x5 rectangle: no articulation cell
BlockShape == {<<r, c>> : r \in 4..5, c \in 2..6}
\* a staircase against the left edge
StairShape == {<<3, 0>>, <<4, 0>>, <<4, 1>>, <<5, 1>>, <<5, 2>>, <<6, 2>>,
               <<6, 3>>, <<7, 3>>, <<7, 4>>, <<8, 4>>}
\* two groups of 5 blocks that do not touch
IslandsShape == {<<0, c>> : c \in 0..4} \cup {<<2, c>> : c \in 0..4}
\* two lines of 10 blocks that do not touch
TwoLinesShape == {<<0, c>> : c \in 0..9} \cup {<<2, c>> : c \in 0..9}
\* two groups of 5 blocks that touch only diagonally
DiagonalShape == {<<0, c>> : c \in 0..4} \cup {<<1, c>> : c \in 5..9}

\* a T against the top edge
TeeShape == {<<0, c>> : c \in 3..8} \cup {<<r, 5>> : r \in 1..4}
\* a U that opens upwards
CupShape == {<<r, 6>> : r \in 2..5} \cup {<<r, 9>> : r \in 2..5}
                \cup {<<5, 7>>, <<5, 8>>}
\* a straight line of 10 blocks in column 9
ColumnShape == {<<r, 9>> : r \in 0..9}
\* an L in the bottom left corner
EllShape == {<<r, 0>> : r \in 4..9} \cup {<<9, c>> : c \in 1..4}

\* the grids a game is started from
PlayBoards ==
    {BoardOf(LineShape), BoardOf(HookShape), BoardOf(CrossShape),
     BoardOf(StairShape), BoardOf(TeeShape), BoardOf(CupShape),
     BoardOf(ColumnShape), BoardOf(EllShape)}
\* the grids a caller composes by hand
InputBoards ==
    {BoardOf(LineShape), BoardOf(HookShape), BoardOf(CrossShape),
     BoardOf(BlockShape), BoardOf(StairShape), BoardOf(IslandsShape),
     BoardOf(DiagonalShape), BoardOf(TwoLinesShape)}

\* values a JSON cell can hold: 0, 1, and 2 standing for any other value
CellValues == {0, 1, 2}

\* the shapes of a request body that is no 10x10 array
Malformed(b) ==
    { NotArray,
      Arr(SubSeq(b.items, 1, BOARD_SIZE - 1)),
      [b EXCEPT !.items[1] = NotArray],
      [b EXCEPT !.items[2] = Arr(SubSeq(b.items[2].items, 1, BOARD_SIZE - 1))] }

\* the cells countConnectedBlocks is started from
StartNodes ==
    {Undefined, [r |-> 0, c |-> 0], [r |-> 0, c |-> 1], [r |-> 1, c |-> 1]}

----------------------------------------------------------------------------
(* The engine called on caller-composed grids *)

NoCall ==
    /\ lastCall = "none"
    /\ validationError = "none"
    /\ allMoves = <<>>
    /\ startNode = Undefined
    /\ connected = -1

HandlerIdle ==
    /\ pc = "idle"
    /\ reply = [called |-> FALSE, resolved |-> FALSE, hasText |-> FALSE,
                text |-> <<>>]
    /\ responses = <<>>
    /\ requests = 0

Init ==
    /\ board \in InputBoards
    /\ NoCall
    /\ edits = 0
    /\ steps = 0
    /\ HandlerIdle

\* the caller rewrites one cell of the grid it is about to send
Rewrite(r, c, v) ==
    /\ edits < MaxEdits
    /\ IsTenByTen(board)
    /\ Cell(board, r, c) # v
    /\ board' = SetCell(board, r, c, v)
    /\ edits' = edits + 1
    /\ lastCall' = "none"
    /\ validationError' = "none"
    /\ allMoves' = <<>>
    /\ startNode' = Undefined
    /\ connected' = -1
    /\ UNCHANGED <<steps, pc, reply, responses, requests>>

\* the caller sends something that is no 10x10 array
Malform ==
    /\ edits = 0
    /\ IsTenByTen(board)
    /\ \E m \in Malformed(board) : board' = m
    /\ edits' = edits + 1
    /\ lastCall' = "none"
    /\ validationError' = "none"
    /\ allMoves' = <<>>
    /\ startNode' = Undefined
    /\ connected' = -1
    /\ UNCHANGED <<steps, pc, reply, responses, requests>>

\* validateBoard(board): it only reads board
CallValidateBoard ==
    /\ validationError' = validateBoard(board)
    /\ board' = board
    /\ lastCall' = "validateBoard"
    /\ allMoves' = <<>>
    /\ startNode' = Undefined
    /\ connected' = -1
    /\ UNCHANGED <<edits, steps, pc, reply, responses, requests>>

\* countConnectedBlocks(board, start) on a 10x10 board
CallCountConnectedBlocks(start) ==
    /\ IsTenByTen(board)
    /\ connected' = countConnectedBlocks(board, start)
    /\ startNode' = start
    /\ board' = board
    /\ lastCall' = "countConnectedBlocks"
    /\ validationError' = "none"
    /\ allMoves' = <<>>
    /\ UNCHANGED <<edits, steps, pc, reply, responses, requests>>

\* findAllValidMoves(board), called as the handlers call it: on a board that
\* validateBoard has accepted
CallFindAllValidMoves ==
    /\ validateBoard(board) = Null
    /\ LET result == findAllValidMoves(board)
       IN /\ allMoves' = result.allMoves
          /\ board' = result.board
    /\ lastCall' = "findAllValidMoves"
    /\ validationError' = "none"
    /\ startNode' = Undefined
    /\ connected' = -1
    /\ UNCHANGED <<edits, steps, pc, reply, responses, requests>>

Next ==
    \/ \E r \in 0..(EditSpan - 1), c \in 0..(EditSpan - 1), v \in CellValues :
          Rewrite(r, c, v)
    \/ Malform
    \/ CallValidateBoard
    \/ \E start \in StartNodes : CallCountConnectedBlocks(start)
    \/ CallFindAllValidMoves

Spec == Init /\ [][Next]_vars

----------------------------------------------------------------------------
(* Enumerated moves played on valid grids *)

\* the grid after relocating the mark from one cell to another
MoveBlock(b, from, to) == SetCell(SetCell(b, from.r, from.c, 0), to.r, to.c, 1)

Distance(p, q) ==
    LET dr == IF p.r > q.r THEN p.r - q.r ELSE q.r - p.r
        dc == IF p.c > q.c THEN p.c - q.c ELSE q.c - p.c
    IN IF dr > dc THEN dr ELSE dc

InitMoves ==
    /\ board \in PlayBoards
    /\ NoCall
    /\ edits = 0
    /\ steps = 0
    /\ HandlerIdle

\* the player relocates a block as the j-th destination of the i-th
\* enumerated move says; the result is the next grid sent to the service
PlayMove(i, j) ==
    /\ lastCall = "findAllValidMoves"
    /\ steps < MaxSteps
    /\ Distance(allMoves[i].from, allMoves[i].to[j]) <= PlaySpan
    /\ board' = MoveBlock(board, allMoves[i].from, allMoves[i].to[j])
    /\ steps' = steps + 1
    /\ lastCall' = "none"
    /\ validationError' = "none"
    /\ allMoves' = <<>>
    /\ startNode' = Undefined
    /\ connected' = -1
    /\ UNCHANGED <<edits, pc, reply, responses, requests>>

NextMoves ==
    \/ CallValidateBoard
    \/ CallFindAllValidMoves
    \/ \E i \in 1..Len(allMoves) : \E j \in 1..Len(allMoves[i].to) : PlayMove(i, j)

SpecMoves == InitMoves /\ [][NextMoves]_vars

----------------------------------------------------------------------------
(* POST /getBoard *)

ErrNoMoves == "No valid moves available on the provided board."
ErrInvalidReply == "AI returned an invalid board state."
ErrProcessing == "Error processing AI response."

\* res.status(n).json({ error, ... }) and res.json({ board, predict })
ErrorResponse(status, error) ==
    [status |-> status, error |-> error, hasBoard |-> FALSE,
     board |-> NotArray, predict |-> ""]
BoardResponse(b, predict) ==
    [status |-> 200, error |-> "", hasBoard |-> TRUE,
     board |-> b, predict |-> predict]

\* The generator's reply text, as a sequence of pieces: a ```json fence, a
\* ``` fence, a JSON document, or any other text.
FenceJson == [kind |-> "fenceJson", isNull |-> TRUE, board |-> NotArray, predict |-> ""]
Fence == [kind |-> "fence", isNull |-> TRUE, board |-> NotArray, predict |-> ""]
Prose == [kind |-> "prose", isNull |-> TRUE, board |-> NotArray, predict |-> ""]
JsonNull == [kind |-> "json", isNull |-> TRUE, board |-> NotArray, predict |-> ""]
\* a JSON object; its "board" member is b (NotArray when it has none)
JsonObject(b) == [kind |-> "json", isNull |-> FALSE, board |-> b, predict |-> "shape"]

\* no generator call made yet
NoReply == [called |-> FALSE, resolved |-> FALSE, hasText |-> FALSE, text |-> <<>>]
\* axios.post rejected (network failure, HTTP error status)
Rejected == [called |-> TRUE, resolved |-> FALSE, hasText |-> FALSE, text |-> <<>>]
\* axios.post resolved with a body that has no candidates[0].content.parts[0]
NoCandidates == [called |-> TRUE, resolved |-> TRUE, hasText |-> FALSE, text |-> <<>>]
TextReply(text) == [called |-> TRUE, resolved |-> TRUE, hasText |-> TRUE, text |-> text]

\* responseText.replace(/```json/g, '').replace(/```/g, '').trim()
CleanText(text) ==
    SelectSeq(SelectSeq(text, LAMBDA t : t.kind # "fenceJson"),
              LAMBDA t : t.kind # "fence")

\* JSON.parse succeeds on exactly one JSON document and throws otherwise
Parses(cleanedText) == Len(cleanedText) = 1 /\ cleanedText[1].kind = "json"

\* the try block after the await: TRUE when it runs into the catch clause
\* (rejected call, TypeError on the reply's members, SyntaxError of
\* JSON.parse, TypeError destructuring null)
Throws(r) ==
    \/ ~r.resolved
    \/ ~r.hasText
    \/ ~Parses(CleanText(r.text))
    \/ CleanText(r.text)[1].isNull

\* const { predict, board: newBoard } = aiResponse
NewBoard(r) == CleanText(r.text)[1].board

\* what the handler sends once the generator call has settled
AcceptUnvalidated(r) ==
    IF Throws(r) THEN << ErrorResponse(500, ErrProcessing) >>
    ELSE << BoardResponse(NewBoard(r), CleanText(r.text)[1].predict) >>
SettledResponses(r) ==
    IF Throws(r) THEN << ErrorResponse(500, ErrProcessing) >>
    ELSE IF validateBoard(NewBoard(r)) # Null
         THEN << ErrorResponse(500, ErrInvalidReply) >>
         ELSE << BoardResponse(NewBoard(r), CleanText(r.text)[1].predict) >>

\* the first free cell of the scan order
FirstFree(b) == First(SelectSeq(ScanOrder, LAMBDA p : Cell(b, p.r, p.c) = 0))

\* the results of the i-th enumerated move the generator may reply with
MovedBoards(b, moves, i) ==
    { MoveBlock(b, moves[i].from, moves[i].to[j]) :
        j \in {k \in 1..Len(moves[i].to) :
                  Distance(moves[i].from, moves[i].to[k]) <= PlaySpan} }

\* grids the generator may put in its reply: the result of the first or the
\* last enumerated move, the input itself, and grids that break the rules
CandidateBoards(b, moves) ==
    MovedBoards(b, moves, 1)
    \cup MovedBoards(b, moves, Len(moves))
    \cup { b,
           SetCell(b, First(findBlocks(b)).r, First(findBlocks(b)).c, 0),
           SetCell(b, FirstFree(b).r, FirstFree(b).c, 2),
           BoardOf(IslandsShape),
           NotArray }

\* the texts the generator may wrap a candidate in
ReplyTexts(candidate) ==
    { << JsonObject(candidate) >>,
      << FenceJson, JsonObject(candidate), Fence >>,
      << Prose, JsonObject(candidate) >> }

Replies(b, moves) ==
    { Rejected, NoCandidates, TextReply(<<>>), TextReply(<< JsonNull >>) }
    \cup { TextReply(<< JsonObject(c) >>) : c \in CandidateBoards(b, moves) }
    \cup { TextReply(t) : t \in ReplyTexts(b) }

\* request bodies: composed grids, grids holding a cell that is not 0/1, and
\* bodies that are no 10x10 array
RequestBoards ==
    InputBoards
    \cup { SetCell(BoardOf(LineShape), 1, 1, 2),
           SetCell(BoardOf(HookShape), 0, 0, 2) }
    \cup Malformed(BoardOf(LineShape))

InitHandler ==
    /\ board \in RequestBoards
    /\ NoCall
    /\ edits = 0
    /\ steps = 0
    /\ pc = "received"
    /\ reply = NoReply
    /\ responses = <<>>
    /\ requests = 1

\* the handler up to the await: input validation, move enumeration, prompt
GetBoardStart ==
    /\ pc = "received"
    /\ validationError' = validateBoard(board)
    /\ IF validationError' # Null
       THEN /\ responses' = Append(responses, ErrorResponse(400, validationError'))
            /\ pc' = "done"
            /\ UNCHANGED <<board, allMoves>>
       ELSE LET result == findAllValidMoves(board)
            IN /\ allMoves' = result.allMoves
               /\ board' = result.board
               /\ IF Len(result.allMoves) = 0
                  THEN /\ responses' = Append(responses,
                                              ErrorResponse(400, ErrNoMoves))
                       /\ pc' = "done"
                  ELSE /\ responses' = responses
                       /\ pc' = "awaiting"
    /\ UNCHANGED <<lastCall, startNode, connected, edits, steps, reply, requests>>

\* the generator call settles
GeneratorSettles ==
    /\ pc = "awaiting"
    /\ \E r \in Replies(board, allMoves) : reply' = r
    /\ pc' = "settled"
    /\ UNCHANGED <<board, lastCall, validationError, allMoves, startNode,
                   connected, edits, steps, responses, requests>>

\* the handler after the await: parse, re-validate, respond
GetBoardResume ==
    /\ pc = "settled"
    /\ responses' = responses \o SettledResponses(reply)
    /\ pc' = "done"
    /\ UNCHANGED <<board, lastCall, validationError, allMoves, startNode,
                   connected, edits, steps, reply, requests>>

\* the client sends the board it was given back for another move
NextRequest ==
    /\ pc = "done"
    /\ requests < MaxRequests
    /\ Len(responses) > 0
    /\ responses[Len(responses)].hasBoard
    /\ board' = responses[Len(responses)].board
    /\ requests' = requests + 1
    /\ pc' = "received"
    /\ reply' = NoReply
    /\ responses' = <<>>
    /\ validationError' = "none"
    /\ allMoves' = <<>>
    /\ UNCHANGED <<lastCall, startNode, connected, edits, steps>>

NextHandler ==
    \/ GetBoardStart
    \/ GeneratorSettles
    \/ GetBoardResume
    \/ NextRequest

SpecHandler == InitHandler /\ [][NextHandler]_vars

----------------------------------------------------------------------------
(* Grids as sets of cells: the vocabulary of the properties *)

Coords == {<<r, c>> : r \in 0..(BOARD_SIZE - 1), c \in 0..(BOARD_SIZE - 1)}

MarkedCells(b) == {p \in Coords : Cell(b, p[1], p[2]) = 1}

\* two cells share an edge
Touch(p, q) ==
    \/ p[1] = q[1] /\ (p[2] - q[2] = 1 \/ q[2] - p[2] = 1)
    \/ p[2] = q[2] /\ (p[1] - q[1] = 1 \/ q[1] - p[1] = 1)

RECURSIVE Spread(_, _)
Spread(S, R) ==
    LET R2 == R \cup {q \in S : \E p \in R : Touch(p, q)}
    IN IF R2 = R THEN R ELSE Spread(S, R2)

\* the cells of S joined to p by a chain of edge-sharing cells of S
Component(S, p) == Spread(S, {p})

\* S is empty or a single component (the component of any one cell is S)
OneComponent(S) == S = {} \/ Component(S, CHOOSE p \in S : TRUE) = S

\* a 10x10 grid whose every cell is 0 or 1
Binary(b) ==
    /\ IsTenByTen(b)
    /\ \A p \in Coords : Cell(b, p[1], p[2]) \in {0, 1}

Node(p) == [r |-> p[1], c |-> p[2]]
Pair(n) == <<n.r, n.c>>

\* a cell of S whose removal splits the remaining cells of S
ArticulationIn(S, p) == p \in S /\ ~OneComponent(S \ {p})

\* a marked cell whose removal splits the remaining marked cells
Articulation(b, p) == ArticulationIn(MarkedCells(b), p)

----------------------------------------------------------------------------
(* Properties of validateBoard and countConnectedBlocks *)

\* C3: validate returns null iff the grid is 10x10 with every cell 0 or 1,
\* has exactly 10 marked cells, and the component of a marked cell has 10
\* cells; a 10x10 grid holding any other cell value gets the shape error.
ValidateIffBinaryCountConnected ==
    lastCall = "validateBoard" =>
        /\ (validationError = Null) <=>
              /\ Binary(board)
              /\ Cardinality(MarkedCells(board)) = BLOCK_COUNT
              /\ \E p \in MarkedCells(board) :
                    Cardinality(Component(MarkedCells(board), p)) = BLOCK_COUNT
        /\ (IsTenByTen(board) /\ ~Binary(board)) => validationError = ErrShape

\* the classification of a 0/1 grid: count first, then connectivity
Classified ==
    /\ (validationError = ErrCount) <=>
          Cardinality(MarkedCells(board)) # BLOCK_COUNT
    /\ (validationError = ErrShapeless) <=>
          /\ Cardinality(MarkedCells(board)) = BLOCK_COUNT
          /\ ~OneComponent(MarkedCells(board))
    /\ (validationError = Null) <=>
          /\ Cardinality(MarkedCells(board)) = BLOCK_COUNT
          /\ OneComponent(MarkedCells(board))

\* C4 as stated: on a 0/1 grid validate reports the count error whenever the
\* count is not 10, the shape error exactly when 10 marked cells are not one
\* component, null otherwise; and the grid is valid exactly when the
\* component size from any marked cell is 10.
ClassifiedAndSizeTenIffValid ==
    (lastCall = "validateBoard" /\ Binary(board)) =>
        /\ Classified
        /\ (validationError = Null) <=>
              /\ MarkedCells(board) # {}
              /\ \A p \in MarkedCells(board) :
                    countConnectedBlocks(board, Node(p)) = BLOCK_COUNT

\* C4 amended: the same classification; and on a grid with exactly 10 marked
\* cells, the component size from each marked cell is 10 exactly when the
\* grid is valid, whichever marked cell is the start.
ClassifiedAndSizeTenIffValidOfTen ==
    (lastCall = "validateBoard" /\ Binary(board)) =>
        /\ Classified
        /\ Cardinality(MarkedCells(board)) = BLOCK_COUNT =>
              \A p \in MarkedCells(board) :
                  (countConnectedBlocks(board, Node(p)) = BLOCK_COUNT)
                      <=> (validationError = Null)

\* ten marked cells in two groups that touch only diagonally were rejected
\* as disconnected
DiagonalContactRejected ==
    /\ lastCall = "validateBoard"
    /\ board = BoardOf(DiagonalShape)
    /\ validationError = ErrShapeless

\* C6: validateBoard and findAllValidMoves leave every cell of the caller's
\* grid as it was, so a second validateBoard of a valid grid returns null
\* again and a second findAllValidMoves returns the same moves.
PureReads ==
    [][ /\ (lastCall' # "none") => (board' = board)
        /\ (lastCall = "validateBoard" /\ lastCall' = "validateBoard"
              /\ validationError = Null) => (validationError' = Null)
        /\ (lastCall = "findAllValidMoves" /\ lastCall' = "findAllValidMoves")
              => (allMoves' = allMoves) ]_vars

\* moves were enumerated on a grid the caller had rewritten
MovesEnumeratedOnEditedGrid ==
    /\ lastCall = "findAllValidMoves"
    /\ edits > 0
    /\ Len(allMoves) > 0

\* C7: countConnectedBlocks returns 0 for an absent start and for an unmarked
\* in-bounds start; for a marked start it returns the size of its component.
CountZeroUnlessMarked ==
    lastCall = "countConnectedBlocks" =>
        IF startNode = Undefined THEN connected = 0
        ELSE IF Cell(board, startNode.r, startNode.c) # 1 THEN connected = 0
        ELSE connected = Cardinality(Component(MarkedCells(board), Pair(startNode)))

----------------------------------------------------------------------------
(* Properties of findAllValidMoves *)

Enumerated == lastCall = "findAllValidMoves"

Sources == {Pair(allMoves[i].from) : i \in 1..Len(allMoves)}

Destinations(i) == {Pair(allMoves[i].to[j]) : j \in 1..Len(allMoves[i].to)}

\* C1: every grid reached by playing enumerated moves from a valid grid
\* passes validate, and so does the grid obtained from it by any destination
\* of any enumerated move.
ClosureOfMoves ==
    /\ validateBoard(board) = Null
    /\ Enumerated =>
          \A i \in 1..Len(allMoves) : \A j \in 1..Len(allMoves[i].to) :
              validateBoard(MoveBlock(board, allMoves[i].from,
                                      allMoves[i].to[j])) = Null

\* moves were enumerated on a grid that is itself the result of a move
MovesEnumeratedAfterPlay ==
    /\ Enumerated
    /\ steps > 0
    /\ Len(allMoves) > 0

\* C2: every source of an enumerated move is marked in the caller's grid and
\* every destination is empty in the caller's grid.
SourcesMarkedDestinationsEmpty ==
    Enumerated =>
        \A i \in 1..Len(allMoves) :
            /\ Cell(board, allMoves[i].from.r, allMoves[i].from.c) = 1
            /\ \A j \in 1..Len(allMoves[i].to) :
                  Cell(board, allMoves[i].to[j].r, allMoves[i].to[j].c) = 0

\* C8: an articulation cell of a valid grid is the source of no move and a
\* destination of no move; on the straight line of 10 only the two end
\* cells have moves.
ArticulationCellsNeverMove ==
    (Enumerated /\ validateBoard(board) = Null) =>
        /\ LET marked == MarkedCells(board)
           IN \A p \in marked :
                 ArticulationIn(marked, p) =>
                     /\ p \notin Sources
                     /\ \A i \in 1..Len(allMoves) : p \notin Destinations(i)
        /\ board = BoardOf(LineShape) => Sources = {<<0, 0>>, <<0, 9>>}

\* moves were enumerated on a grid reached by a move that has an
\* articulation cell and a cell that is none
ArticulationCellSkipped ==
    /\ Enumerated
    /\ steps > 0
    /\ \E p \in MarkedCells(board) : Articulation(board, p)
    /\ Len(allMoves) > 0

\* C9: a destination list holds no coordinate twice, and each destination is
\* inside the grid and shares an edge with a marked cell other than the source.
DestinationsDistinctInsideAdjacent ==
    Enumerated =>
        \A i \in 1..Len(allMoves) :
            LET to == allMoves[i].to
                remaining == MarkedCells(board) \ {Pair(allMoves[i].from)}
            IN /\ \A j, k \in 1..Len(to) : to[j] = to[k] => j = k
               /\ \A j \in 1..Len(to) :
                     /\ Pair(to[j]) \in Coords
                     /\ \E q \in remaining : Touch(Pair(to[j]), q)

\* some enumerated destination shares an edge with two remaining marked cells
DestinationNextToTwoBlocks ==
    /\ Enumerated
    /\ \E i \in 1..Len(allMoves) : \E j \in 1..Len(allMoves[i].to) :
          Cardinality({q \in MarkedCells(board) \ {Pair(allMoves[i].from)} :
                          Touch(Pair(allMoves[i].to[j]), q)}) >= 2

----------------------------------------------------------------------------
(* Properties of POST /getBoard *)

\* the JSON documents of a reply text and the pieces that are no fence
Documents(r) == SelectSeq(r.text, LAMBDA t : t.kind = "json")
Unfenced(r) == SelectSeq(r.text, LAMBDA t : t.kind \notin {"fenceJson", "fence"})

\* the reply carries a candidate grid: the call succeeded and the text,
\* fences aside, is one JSON object
HasCandidate(r) ==
    /\ r.called /\ r.resolved /\ r.hasText
    /\ Len(Documents(r)) = 1
    /\ Unfenced(r) = Documents(r)
    /\ ~Documents(r)[1].isNull

Candidate(r) == Documents(r)[1].board

\* C5: a board is sent only in a 200 response, only when the reply carried a
\* candidate that validateBoard accepts, and it is that candidate; when the
\* generator was called and failed, or its reply carried no candidate or an
\* invalid one, the response is a 500 without a board; one response per
\* request.
BoardSentOnlyAfterRevalidation ==
    /\ Len(responses) <= 1
    /\ pc = "done" => Len(responses) = 1
    /\ \A k \in 1..Len(responses) :
          (responses[k].hasBoard \/ responses[k].status = 200) =>
              /\ responses[k].status = 200
              /\ responses[k].hasBoard
              /\ HasCandidate(reply)
              /\ validateBoard(Candidate(reply)) = Null
              /\ responses[k].board = Candidate(reply)
    /\ (/\ pc = "done"
        /\ reply.called
        /\ (~HasCandidate(reply) \/ validateBoard(Candidate(reply)) # Null)) =>
          /\ responses[1].status = 500
          /\ ~responses[1].hasBoard

\* a fenced reply was unwrapped and its valid candidate sent back
FencedCandidateAccepted ==
    /\ pc = "done"
    /\ Len(reply.text) = 3
    /\ Len(responses) = 1
    /\ responses[1].status = 200

\* C10: once input validation has passed, the enumerated moves are not empty
\* and their sources are, in row-major order, exactly the marked cells that
\* are no articulation cell; the no-moves response is never sent.
EveryFreeBlockHasOneMove ==
    /\ validationError = Null =>
          /\ Len(allMoves) > 0
          /\ LET marked == MarkedCells(board)
             IN [i \in 1..Len(allMoves) |-> allMoves[i].from]
                   = SelectSeq(ScanOrder, LAMBDA n :
                         /\ Pair(n) \in marked
                         /\ ~ArticulationIn(marked, Pair(n)))
    /\ \A k \in 1..Len(responses) : responses[k].error # ErrNoMoves

\* moves were enumerated for a second request whose grid has an
\* articulation cell
MovesEnumeratedForSecondRequest ==
    /\ pc = "awaiting"
    /\ requests = 2
    /\ \E p \in MarkedCells(board) : Articulation(board, p)

====
